---- MODULE Spec2Model ----
(***************************************************************************)
(* A model of rdf/graph.go: the Graph wrapper around a badwolf             *)
(* storage.Graph, its add-counter, the set algebra (Substract, Intersect), *)
(* the depth-first traversal along parent_of, the line serialisation       *)
(* (Marshal, Unmarshal) and the goroutine/channel adapter allTriples.      *)
(*                                                                         *)
(* Strings are sequences of byte values, compared as Go compares strings.  *)
(* The storage.Graph primitives, the triple parser and the canonical       *)
(* string forms belong to the badwolf library; they are modelled from      *)
(* their interface: every primitive that returns an error may fail.        *)
(***************************************************************************)
EXTENDS Integers, Sequences, FiniteSets, TLC

VARIABLES graphs, ledger, last, prev, scan

vars == <<graphs, ledger, last, prev, scan>>

----------------------------------------------------------------------------
(* Bounds of the model.                                                    *)

MaxCount == 3
MaxLen == 2
MaxScanFacts == 3
MaxVisitFacts == 5
MaxStart == 1
MaxLines == 4

----------------------------------------------------------------------------
(* Byte strings.                                                           *)

NL == 10

Min(S) == CHOOSE i \in S : \A j \in S : i <= j

\* Go's s < t on strings: bytewise lexical order, a proper prefix is smaller.
StrLess(s, t) ==
  LET common == IF Len(s) < Len(t) THEN Len(s) ELSE Len(t)
      differ == {i \in 1..common : s[i] # t[i]}
  IN  IF differ = {} THEN Len(s) < Len(t)
      ELSE s[Min(differ)] < t[Min(differ)]

IsSpace(c) == c \in {9, 10, 11, 12, 13, 32}

RECURSIVE TrimLeft(_)
TrimLeft(s) == IF s # <<>> /\ IsSpace(s[1]) THEN TrimLeft(Tail(s)) ELSE s

RECURSIVE TrimRight(_)
TrimRight(s) ==
  IF s # <<>> /\ IsSpace(s[Len(s)]) THEN TrimRight(SubSeq(s, 1, Len(s) - 1)) ELSE s

\* bytes.TrimSpace
TrimSpace(s) == TrimRight(TrimLeft(s))

\* bytes.Split(data, sep) for a one-byte separator: n separators give n+1
\* pieces, the k-th piece lying between the (k-1)-th and the k-th separator.
Split(data, sep) ==
  LET at == {i \in 1..Len(data) : data[i] = sep}
      cut(k) == IF k = 0 THEN 0
                ELSE IF k > Cardinality(at) THEN Len(data) + 1
                ELSE CHOOSE i \in at : Cardinality({j \in at : j < i}) = k - 1
  IN  [k \in 1..(Cardinality(at) + 1) |-> SubSeq(data, cut(k - 1) + 1, cut(k) - 1)]

RECURSIVE Join(_, _)
\* bytes.Join(parts, sep): the separator between the parts, none after the last.
Join(parts, sep) ==
  IF parts = <<>> THEN <<>>
  ELSE IF Len(parts) = 1 THEN parts[1]
  ELSE parts[1] \o <<sep>> \o Join(Tail(parts), sep)

----------------------------------------------------------------------------
(* Nodes, objects, facts and their canonical strings (badwolf).            *)

Node(t, id) == [kind |-> "node", t |-> t, id |-> id]
Literal(text) == [kind |-> "lit", t |-> <<>>, id |-> text]
Fact(s, o) == [s |-> s, p |-> "parent_of", o |-> o]

\* node.Node.ID().String(): the identifier alone, without the type.
IDString(n) == n.id

\* node.Node.String(): /type<id>
NodeString(n) == <<47>> \o n.t \o <<60>> \o n.id \o <<62>>

\* predicate.Predicate.String() of the immutable parent_of: "parent_of"@[]
PredicateString(p) ==
  <<34, 112, 97, 114, 101, 110, 116, 95, 111, 102, 34, 64, 91, 93>>

\* literal.Literal.String() of a text literal: "text"^^type:text, the text raw.
LiteralString(l) ==
  <<34>> \o l.id \o <<34, 94, 94, 116, 121, 112, 101, 58, 116, 101, 120, 116>>

ObjectString(o) == IF o.kind = "node" THEN NodeString(o) ELSE LiteralString(o)

\* triple.Triple.String(): subject, predicate and object separated by tabs.
TripleString(f) ==
  NodeString(f.s) \o <<9>> \o PredicateString(f.p) \o <<9>> \o ObjectString(f.o)

NA == Node(<<116>>, <<97>>)
NB == Node(<<116>>, <<98>>)
NC == Node(<<116>>, <<99>>)
NCu == Node(<<117>>, <<99>>)
ND == Node(<<116>>, <<100>>)
LitX == Literal(<<120>>)
LitXY == Literal(<<120, 10, 121>>)

FactList ==
  << Fact(NA, NB), Fact(NA, NC), Fact(NA, NCu), Fact(NC, ND),
     Fact(NB, LitX), Fact(NA, LitXY) >>

FactUniverse == {FactList[i] : i \in 1..Len(FactList)}

----------------------------------------------------------------------------
(* The storage.Graph primitives. ok = FALSE is a call that reports an      *)
(* error; a refused call leaves the stored set as it was.                  *)

SeqRange(s) == {s[i] : i \in 1..Len(s)}

Perms(S) ==
  {p \in [1..Cardinality(S) -> S] : \A i, j \in 1..Cardinality(S) : p[i] = p[j] => i = j}

StoreAddTriples(stored, triples, ok) ==
  IF ok THEN stored \cup SeqRange(triples) ELSE stored

StoreRemoveTriples(stored, triples, ok) ==
  IF ok THEN stored \ SeqRange(triples) ELSE stored

StoreExist(stored, t, ok) == [found |-> ok /\ t \in stored, err |-> ~ok]

\* What a scan can stream before it returns: every fact once in any order,
\* or, when it reports an error, any prefix of such a stream.
StoreScans(stored) ==
  {[triples |-> p, err |-> FALSE] : p \in Perms(stored)}
    \cup UNION {{[triples |-> SubSeq(p, 1, k), err |-> TRUE] : k \in 0..Len(p)}
                 : p \in Perms(stored)}

----------------------------------------------------------------------------
(* Graph: the embedded storage.Graph (its fact set) and triplesCount.      *)
(* The operations that allocate work on a heap, a map from references to   *)
(* Graph values, so that what they write through each reference shows.     *)

Nil == "nil"

\* The reference of the graph NewGraph() creates under a randString() name.
FreshRef == "out"

NewGraph == [facts |-> {}, triplesCount |-> 0]

\* Mutant: the counter grows only by what the store accepted.
GraphAddCountsAccepted(g, triples, ok) ==
  [facts |-> StoreAddTriples(g.facts, triples, ok),
   triplesCount |-> g.triplesCount + (IF ok THEN Len(triples) ELSE 0)]

GraphAdd(g, triples, ok) ==
  [facts |-> StoreAddTriples(g.facts, triples, ok),
   triplesCount |-> g.triplesCount + Len(triples)]

NewNamedGraphFromTriples(triples, ok) ==
  GraphAdd([NewGraph EXCEPT !.triplesCount = Len(triples)], triples, ok)

\* allTriples as its callers see it: the list drained from the scan and the
\* scan's error.
AllTriples(g) == StoreScans(g.facts)

\* Mutant: the copy is g itself, not a fresh graph.
GraphCopyAliases(heap, g, all, okAdd) ==
  [heap |-> [heap EXCEPT ![g] = GraphAdd(@, all.triples, okAdd)] @@ (FreshRef :> NewGraph),
   ref |-> g]

\* Mutant: the copy is built as NewGraphFromTriples builds, counter pre-set.
GraphCopyPresetsCounter(heap, g, all, okAdd) ==
  [heap |-> heap @@ (FreshRef :> NewNamedGraphFromTriples(all.triples, okAdd)),
   ref |-> FreshRef]

GraphCopy(heap, g, all, okAdd) ==
  [heap |-> heap @@ (FreshRef :> GraphAdd(NewGraph, all.triples, okAdd)),
   ref |-> FreshRef]

\* Mutant: the facts removed are those of g, not those of other.
SubstractRemovesOwn(heap, g, other, all, others, okAdd, okRem) ==
  LET sub == GraphCopy(heap, g, all, okAdd)
  IN  [heap |-> [sub.heap EXCEPT
                   ![sub.ref].facts = StoreRemoveTriples(@, all.triples, okRem)],
       ref |-> sub.ref]

Substract(heap, g, other, all, others, okAdd, okRem) ==
  LET sub == GraphCopy(heap, g, all, okAdd)
  IN  [heap |-> [sub.heap EXCEPT
                   ![sub.ref].facts = StoreRemoveTriples(@, others.triples, okRem)],
       ref |-> sub.ref]

RECURSIVE IntersectLoop(_, _, _, _, _, _)
IntersectLoop(heap, inter, other, triples, existFail, addFail) ==
  IF triples = <<>> THEN heap
  ELSE LET tri == triples[1]
           ex == StoreExist(heap[other].facts, tri, tri \notin existFail)
           next == IF ex.found /\ ~ex.err
                     THEN [heap EXCEPT ![inter] = GraphAdd(@, <<tri>>, tri \notin addFail)]
                     ELSE heap
       IN  IntersectLoop(next, inter, other, Tail(triples), existFail, addFail)

\* inter is allocated before the scan; the call returns it, or nil when the
\* scan of g reported an error.
Intersect(heap, g, other, all, existFail, addFail) ==
  LET h == heap @@ (FreshRef :> NewGraph)
  IN  IF all.err
        THEN [heap |-> h, ref |-> Nil]
        ELSE [heap |-> IntersectLoop(h, FreshRef, other, all.triples, existFail, addFail),
              ref |-> FreshRef]

----------------------------------------------------------------------------
(* Specification Spec: collections, the add-counter and the set algebra.   *)
(* The client holds two collections, "a" and "b"; graphs maps the ones     *)
(* constructed so far. The collection a Substract or Intersect call        *)
(* allocates is kept in last.out, the reference the call returns in        *)
(* last.ref, the number of facts submitted to its add in last.added.       *)
(* ledger is the history of each client collection: the counter's value    *)
(* when the constructor set it and the lengths of the add calls since.     *)

AlgFacts == {FactList[1], FactList[2]}

FactSeqs(U, n) == UNION {[1..k -> U] : k \in 0..n}

GraphNames == {"a", "b"}

Built == DOMAIN graphs

NoOp ==
  [op |-> "none", a |-> Nil, b |-> Nil, preA |-> NewGraph, preB |-> NewGraph,
   out |-> NewGraph, ref |-> Nil, added |-> 0, nA |-> 0,
   scanErr |-> FALSE, existErr |-> FALSE, addErr |-> FALSE, remErr |-> FALSE]

IdleScan ==
  [pc |-> "idle", ppc |-> "idle", streamed |-> <<>>, triples |-> <<>>,
   triplecClosed |-> FALSE, errcClosed |-> FALSE, storeErr |-> FALSE,
   retErr |-> FALSE]

Init ==
  /\ graphs = <<>>
  /\ ledger = <<>>
  /\ last = NoOp
  /\ prev = NoOp
  /\ scan = IdleScan

DoNewGraph ==
  \E n \in GraphNames \ Built :
    /\ last.op = "none"
    /\ graphs' = graphs @@ (n :> NewGraph)
    /\ ledger' = ledger @@ (n :> [init |-> 0, added |-> 0])
    /\ last' = [NoOp EXCEPT !.op = "NewGraph", !.a = n]
    /\ UNCHANGED <<prev, scan>>

DoNewGraphFromTriples ==
  \E n \in GraphNames \ Built, triples \in FactSeqs(AlgFacts, MaxLen), ok \in BOOLEAN :
    /\ last.op = "none"
    /\ 2 * Len(triples) <= MaxCount
    /\ graphs' = graphs @@ (n :> NewNamedGraphFromTriples(triples, ok))
    /\ ledger' = ledger @@ (n :> [init |-> Len(triples), added |-> Len(triples)])
    /\ last' = [NoOp EXCEPT !.op = "NewGraphFromTriples", !.a = n,
                            !.nA = Len(triples), !.addErr = ~ok]
    /\ UNCHANGED <<prev, scan>>

DoAdd ==
  \E g \in Built, triples \in FactSeqs(AlgFacts, MaxLen), ok \in BOOLEAN :
    /\ last.op = "none"
    /\ graphs[g].triplesCount + Len(triples) <= MaxCount
    /\ graphs' = [graphs EXCEPT ![g] = GraphAdd(@, triples, ok)]
    /\ ledger' = [ledger EXCEPT ![g].added = @ + Len(triples)]
    /\ last' = [NoOp EXCEPT !.op = "Add", !.a = g, !.preA = graphs[g],
                            !.nA = Len(triples), !.addErr = ~ok]
    /\ UNCHANGED <<prev, scan>>

DoSubstract ==
  /\ last.op = "none"
  /\ \E a \in Built, b \in Built :
       \E all \in AllTriples(graphs[a]), others \in AllTriples(graphs[b]) :
         \E okAdd \in BOOLEAN, okRem \in BOOLEAN :
           LET r == Substract(graphs, a, b, all, others, okAdd, okRem)
           IN  /\ graphs' = [n \in DOMAIN graphs |-> r.heap[n]]
               /\ last' = [NoOp EXCEPT !.op = "Substract", !.a = a, !.b = b,
                                       !.preA = graphs[a], !.preB = graphs[b],
                                       !.out = r.heap[FreshRef], !.ref = r.ref,
                                       !.added = Len(all.triples),
                                       !.nA = Len(all.triples),
                                       !.scanErr = all.err \/ others.err,
                                       !.addErr = ~okAdd, !.remErr = ~okRem]
  /\ UNCHANGED <<ledger, prev, scan>>

DoIntersect ==
  /\ last.op = "none"
  /\ \E a \in Built, b \in Built :
       \E all \in AllTriples(graphs[a]) :
         \E existFail \in SUBSET AlgFacts, addFail \in SUBSET AlgFacts :
           LET r == Intersect(graphs, a, b, all, existFail, addFail)
               tried == {t \in SeqRange(all.triples) :
                           t \notin existFail /\ t \in graphs[b].facts}
           IN  /\ graphs' = [n \in DOMAIN graphs |-> r.heap[n]]
               /\ last' = [NoOp EXCEPT !.op = "Intersect", !.a = a, !.b = b,
                                       !.preA = graphs[a], !.preB = graphs[b],
                                       !.out = r.heap[FreshRef], !.ref = r.ref,
                                       !.added = IF all.err THEN 0 ELSE Cardinality(tried),
                                       !.nA = Len(all.triples),
                                       !.scanErr = all.err,
                                       !.existErr = (SeqRange(all.triples) \cap existFail # {}),
                                       !.addErr = (tried \cap addFail # {})]
  /\ UNCHANGED <<ledger, prev, scan>>

\* The caller takes the result of the call; the next call can start.
Return ==
  /\ last.op # "none"
  /\ last' = NoOp
  /\ UNCHANGED <<graphs, ledger, prev, scan>>

Next ==
  \/ Return
  \/ DoNewGraph
  \/ DoNewGraphFromTriples
  \/ DoAdd
  \/ DoSubstract
  \/ DoIntersect

Spec == Init /\ [][Next]_vars

----------------------------------------------------------------------------
(* Claims checked under Spec.                                              *)

IsAlgebra == last.op \in {"Substract", "Intersect"}

\* C1 as stated: with no scan error and no existence-check error, Substract
\* returns exactly the facts of a not in b, and Intersect exactly the facts in
\* both.
C1_AsStated ==
  /\ (last.op = "Substract" /\ ~last.scanErr)
       => last.out.facts = last.preA.facts \ last.preB.facts
  /\ (last.op = "Intersect" /\ ~last.scanErr /\ ~last.existErr)
       => /\ last.ref # Nil
          /\ last.out.facts = last.preA.facts \cap last.preB.facts

\* C1 amended: when no scan, existence check, add or remove reports an error,
\* Substract returns exactly the facts of a not in b, and Intersect exactly
\* the facts in both a and b.
C1_SetAlgebra ==
  /\ (last.op = "Substract" /\ ~last.scanErr /\ ~last.addErr /\ ~last.remErr)
       => /\ last.ref # Nil
          /\ last.out.facts = last.preA.facts \ last.preB.facts
  /\ (last.op = "Intersect" /\ ~last.scanErr /\ ~last.existErr /\ ~last.addErr)
       => /\ last.ref # Nil
          /\ last.out.facts = last.preA.facts \cap last.preB.facts

C1_Witness ==
  /\ last.op = "Substract"
  /\ ~last.scanErr /\ ~last.addErr /\ ~last.remErr
  /\ last.preA.facts \cap last.preB.facts # {}
  /\ last.out.facts # {}

\* C2 as stated: Substract and Intersect leave the facts and the counter of
\* both inputs as they were, and return a newly allocated collection that is
\* neither input.
C2_AsStated ==
  IsAlgebra =>
    /\ graphs[last.a] = last.preA
    /\ graphs[last.b] = last.preB
    /\ last.ref # Nil
    /\ last.ref \notin DOMAIN graphs

\* C2 amended: Substract and Intersect leave the facts and the counter of both
\* inputs as they were; the result is a newly allocated collection that is
\* neither input, except that Intersect returns nil when its scan of a
\* reports an error.
C2_InputsUntouched ==
  IsAlgebra =>
    /\ graphs[last.a] = last.preA
    /\ graphs[last.b] = last.preB
    /\ last.ref = Nil <=> (last.op = "Intersect" /\ last.scanErr)
    /\ last.ref \notin DOMAIN graphs

C2_Witness ==
  /\ last.op = "Substract"
  /\ last.a # last.b
  /\ ~last.scanErr /\ ~last.addErr /\ ~last.remErr
  /\ last.preA.facts \cap last.preB.facts # {}
  /\ last.out.facts # last.preA.facts
  /\ last.preA.triplesCount > 0

CounterMatchesLedger ==
  /\ \A n \in DOMAIN graphs :
       graphs[n].triplesCount = ledger[n].init + ledger[n].added
  /\ IsAlgebra => last.out.triplesCount = last.added
  /\ last.op = "NewGraphFromTriples" => graphs[last.a].triplesCount = 2 * last.nA

CounterNeverDecreases ==
  \A n \in DOMAIN graphs : graphs'[n].triplesCount >= graphs[n].triplesCount

\* C5: the add-counter never decreases and always equals the value the
\* constructor set (0, or len(F) for a collection built from F) plus the
\* lengths of all add calls made on it, accepted by the store or not; a
\* collection built from F has counter 2 * len(F).
C5_Counter == [](CounterMatchesLedger) /\ [][CounterNeverDecreases]_vars

C5_Witness ==
  /\ last.op = "Add"
  /\ last.addErr
  /\ last.nA > 0
  /\ ledger[last.a].init > 0
  /\ graphs[last.a].triplesCount = MaxCount

\* C6 as stated: the collection Substract returns has a counter equal to
\* twice the number of facts materialized from a.
C6_AsStated ==
  last.op = "Substract" => last.out.triplesCount = 2 * last.nA

\* C6 amended: the copy Substract builds from a, and so the collection it
\* returns, has a counter equal to the number of facts materialized from a
\* (a's fact count when the scan reports no error), not twice that number.
C6_CopyCounter ==
  last.op = "Substract" =>
    /\ last.out.triplesCount = last.nA
    /\ ~last.scanErr => last.nA = Cardinality(last.preA.facts)

C6_Witness ==
  /\ last.op = "Substract"
  /\ ~last.scanErr
  /\ Cardinality(last.preA.facts) = 2
  /\ last.out.triplesCount = 2

----------------------------------------------------------------------------
(* Specification SpecScan: allTriples step by step. The caller makes the   *)
(* two unbuffered channels and starts the goroutine (the producer), which  *)
(* runs the store's scan and then sends the scan's error on errc; the      *)
(* caller (the consumer) drains triplec until it is closed and then        *)
(* receives from errc. A send on an unbuffered channel and its receive are *)
(* one step. The store closes triplec when its scan returns, with all the  *)
(* facts streamed or, on an error, with those streamed so far.             *)

ScanFacts == {FactList[i] : i \in 1..MaxScanFacts}

InitScan ==
  /\ \E stored \in SUBSET ScanFacts :
       graphs = ("a" :> [facts |-> stored, triplesCount |-> Cardinality(stored)])
  /\ ledger = ("a" :> [init |-> 0, added |-> graphs["a"].triplesCount])
  /\ last = NoOp
  /\ prev = NoOp
  /\ scan = IdleScan

\* graph.go:165-172: make the channels, start the goroutine.
CallAllTriples ==
  /\ scan.pc = "idle"
  /\ scan' = [IdleScan EXCEPT !.pc = "range", !.ppc = "scan"]
  /\ UNCHANGED <<graphs, ledger, last, prev>>

\* The scan sends one more fact on triplec; the range loop appends it.
StreamTriple ==
  /\ scan.ppc = "scan"
  /\ scan.pc = "range"
  /\ \E t \in graphs["a"].facts \ SeqRange(scan.streamed) :
       scan' = [scan EXCEPT !.streamed = Append(@, t), !.triples = Append(@, t)]
  /\ UNCHANGED <<graphs, ledger, last, prev>>

\* The scan returns: nil once every fact is streamed, or an error at any point.
ScanReturns ==
  /\ scan.ppc = "scan"
  /\ \E ok \in BOOLEAN :
       /\ ok => SeqRange(scan.streamed) = graphs["a"].facts
       /\ scan' = [scan EXCEPT !.ppc = "sendErr", !.triplecClosed = TRUE,
                               !.storeErr = ~ok]
  /\ UNCHANGED <<graphs, ledger, last, prev>>

\* graph.go:174: the range loop ends when triplec is closed.
RangeEnds ==
  /\ scan.pc = "range"
  /\ scan.triplecClosed
  /\ scan' = [scan EXCEPT !.pc = "recvErr"]
  /\ UNCHANGED <<graphs, ledger, last, prev>>

\* graph.go:171 and 178: errc <- err meets <-errc; allTriples returns.
ErrHandoff ==
  /\ scan.ppc = "sendErr"
  /\ scan.pc = "recvErr"
  /\ scan' = [scan EXCEPT !.ppc = "closeErrc", !.pc = "returned",
                          !.retErr = scan.storeErr]
  /\ UNCHANGED <<graphs, ledger, last, prev>>

\* graph.go:170: the deferred close(errc) ends the goroutine.
CloseErrc ==
  /\ scan.ppc = "closeErrc"
  /\ scan' = [scan EXCEPT !.ppc = "done", !.errcClosed = TRUE]
  /\ UNCHANGED <<graphs, ledger, last, prev>>

\* The caller has its answer and the goroutine is gone: the next call.
ScanOver ==
  /\ scan.pc = "returned"
  /\ scan.ppc = "done"
  /\ scan' = IdleScan
  /\ UNCHANGED <<graphs, ledger, last, prev>>

NextScan ==
  \/ CallAllTriples
  \/ StreamTriple
  \/ ScanReturns
  \/ RangeEnds
  \/ ErrHandoff
  \/ CloseErrc
  \/ ScanOver

SpecScan == InitScan /\ [][NextScan]_vars

IsCompleteList(triples, stored) ==
  /\ SeqRange(triples) = stored
  /\ Len(triples) = Cardinality(stored)

\* C10: in every interleaving of the producer and the consuming loop,
\* allTriples returns either the complete list of the collection's facts with
\* no error, or an error with no facts; never a partial list with a failure.
C10_CompleteOrError ==
  scan.pc = "returned" =>
    \/ ~scan.retErr /\ IsCompleteList(scan.triples, graphs["a"].facts)
    \/ scan.retErr /\ scan.triples = <<>>

\* What the step-by-step allTriples returns is what AllTriples gives its
\* callers in the other specifications.
AllTriplesAgrees ==
  scan.pc = "returned" =>
    [triples |-> scan.triples, err |-> scan.retErr] \in AllTriples(graphs["a"])

----------------------------------------------------------------------------
(* Specification SpecVisit: VisitDepthFirst on a collection of parent_of   *)
(* facts. triplesForSubjectAndPredicate answers with the facts of the      *)
(* subject in the order the store streams them (arrival), or with an error *)
(* (the nodes in failing). last is the latest walk, prev the one before.   *)

\* sort.Sort on fewer than 12 elements is an insertion sort: an element moves
\* left past the elements whose key is greater than its own. The elements
\* are [key, val] pairs, the key being the string Less compares.
RECURSIVE InsertSorted(_, _)
InsertSorted(sorted, x) ==
  IF sorted = <<>> THEN <<x>>
  ELSE IF StrLess(x.key, sorted[Len(sorted)].key)
         THEN Append(InsertSorted(SubSeq(sorted, 1, Len(sorted) - 1), x),
                     sorted[Len(sorted)])
         ELSE Append(sorted, x)

RECURSIVE SortFrom(_, _)
SortFrom(sorted, rest) ==
  IF rest = <<>> THEN sorted
  ELSE SortFrom(InsertSorted(sorted, rest[1]), Tail(rest))

SortByKey(keyed) ==
  LET sorted == SortFrom(<<>>, keyed)
  IN  [i \in 1..Len(sorted) |-> sorted[i].val]

\* sort.Sort(&nodeSorter{nodes}): by ID().String().
SortNodes(nodes) ==
  SortByKey([i \in 1..Len(nodes) |-> [key |-> IDString(nodes[i]), val |-> nodes[i]]])

\* sort.Sort(&tripleSorter{triples}): by String().
SortTriples(triples) ==
  SortByKey([i \in 1..Len(triples) |-> [key |-> TripleString(triples[i]), val |-> triples[i]]])

\* The facts of subject root with predicate parent_of, as streamed.
TriplesForSubjectAndPredicate(stored, root, arrival) ==
  LET OfRoot(f) == f \in stored /\ f.s = root /\ f.p = "parent_of"
  IN  SelectSeq(arrival, OfRoot)

Visited(n, dist) == [node |-> n, depth |-> dist]

RECURSIVE VisitDepthFirst(_, _, _, _, _)
RECURSIVE VisitChilds(_, _, _, _, _, _)

\* log: the calls of each, in order. err: what the call returns. hit: the
\* length of log when the first error of the walk came up, 0 when none did.
VisitDepthFirst(stored, root, dist, failing, arrival) ==
  LET here == <<Visited(root, dist)>>
      relations == TriplesForSubjectAndPredicate(stored, root, arrival)
  IN  IF root \in failing
        THEN [log |-> here, err |-> TRUE, hit |-> 1]
      ELSE IF \E i \in 1..Len(relations) : relations[i].o.kind # "node"
        THEN [log |-> here, err |-> TRUE, hit |-> 1]
      ELSE LET childs == SortNodes([i \in 1..Len(relations) |-> relations[i].o])
           IN  VisitChilds(stored, childs, dist + 1, failing, arrival,
                           [log |-> here, err |-> FALSE, hit |-> 0])

\* graph.go:111-115: what a child's walk returns is dropped.
VisitChilds(stored, childs, dist, failing, arrival, acc) ==
  IF childs = <<>> THEN acc
  ELSE LET r == VisitDepthFirst(stored, childs[1], dist, failing, arrival)
           hit == IF acc.hit > 0 THEN acc.hit
                  ELSE IF r.hit > 0 THEN Len(acc.log) + r.hit
                  ELSE 0
       IN  VisitChilds(stored, Tail(childs), dist, failing, arrival,
                       [log |-> acc.log \o r.log, err |-> FALSE, hit |-> hit])

VisitFacts == {FactList[i] : i \in 1..MaxVisitFacts}

VisitNodes == {f.s : f \in VisitFacts} \cup {f.o : f \in {h \in VisitFacts : h.o.kind = "node"}}

NoVisit ==
  [op |-> "none", root |-> NA, dist |-> 0, log |-> <<>>, err |-> FALSE, hit |-> 0]

InitVisit ==
  /\ \E stored \in SUBSET VisitFacts :
       graphs = ("a" :> [facts |-> stored, triplesCount |-> Cardinality(stored)])
  /\ ledger = ("a" :> [init |-> 0, added |-> graphs["a"].triplesCount])
  /\ last = NoVisit
  /\ prev = NoVisit
  /\ scan = IdleScan

Walk(root, dist, failing, arrival) ==
  LET r == VisitDepthFirst(graphs["a"].facts, root, dist, failing, arrival)
  IN  [op |-> "Visit", root |-> root, dist |-> dist,
       log |-> r.log, err |-> r.err, hit |-> r.hit]

Failings == {{}} \cup {{n} : n \in VisitNodes}

\* A first walk, from any root at any start depth.
DoVisit ==
  /\ last.op = "none"
  /\ \E root \in VisitNodes, dist \in 0..MaxStart, failing \in Failings :
       \E arrival \in Perms(graphs["a"].facts) :
         last' = Walk(root, dist, failing, arrival)
  /\ prev' = last
  /\ UNCHANGED <<graphs, ledger, scan>>

\* A second walk from the same root on the unchanged collection.
DoVisitAgain ==
  /\ last.op = "Visit"
  /\ prev.op = "none"
  /\ \E failing \in Failings :
       \E arrival \in Perms(graphs["a"].facts) :
         last' = Walk(last.root, last.dist, failing, arrival)
  /\ prev' = last
  /\ UNCHANGED <<graphs, ledger, scan>>

\* The caller is done with both walks.
VisitsOver ==
  /\ prev.op = "Visit"
  /\ last' = NoVisit
  /\ prev' = NoVisit
  /\ UNCHANGED <<graphs, ledger, scan>>

NextVisit ==
  \/ DoVisit
  \/ DoVisitAgain
  \/ VisitsOver

SpecVisit == InitVisit /\ [][NextVisit]_vars

AllObjectsNodes == \A f \in graphs["a"].facts : f.o.kind = "node"

ChildsOf(stored, n) == {f.o : f \in {h \in stored : h.s = n /\ h.p = "parent_of"}}

\* The walks the claim allows: the root, then the whole walk of each child one
\* level down, the children in ascending order of their identifier strings.
RECURSIVE PreOrders(_, _, _)
RECURSIVE PreOrdersOf(_, _, _)
PreOrdersOf(stored, childs, dist) ==
  IF childs = <<>> THEN {<<>>}
  ELSE {w \o rest : w \in PreOrders(stored, childs[1], dist),
                    rest \in PreOrdersOf(stored, Tail(childs), dist)}

PreOrders(stored, root, dist) ==
  LET ordered == {p \in Perms(ChildsOf(stored, root)) :
                    \A i, j \in 1..Len(p) : i < j => ~StrLess(p[j].id, p[i].id)}
  IN  UNION {{<<Visited(root, dist)>> \o rest : rest \in PreOrdersOf(stored, p, dist + 1)}
               : p \in ordered}

\* C3: on an acyclic parent_of relation whose objects are all nodes, the walk
\* is in pre-order (root at depth d, then each child's whole subtree at d+1,
\* siblings in ascending order of their identifier strings), and two walks
\* from the same root on the unchanged collection give the same sequence of
\* (node, depth) visits.
C3_PreOrderDeterministic ==
  (last.op = "Visit" /\ AllObjectsNodes /\ last.hit = 0) =>
    /\ last.log \in PreOrders(graphs["a"].facts, last.root, last.dist)
    /\ (prev.op = "Visit" /\ prev.hit = 0) => prev.log = last.log

\* The part of C3 that does hold: each walk alone is such a pre-order.
PreOrderEachWalk ==
  (last.op = "Visit" /\ AllObjectsNodes /\ last.hit = 0) =>
    last.log \in PreOrders(graphs["a"].facts, last.root, last.dist)

\* C4: when a store error or a parent_of object that is no node comes up at
\* any node of the walk, no node is visited after that point and the
\* top-level call returns the error.
C4_FailFast ==
  (last.op = "Visit" /\ last.hit > 0) =>
    /\ Len(last.log) = last.hit
    /\ last.err

\* The part of C4 that does hold: an error at the root itself ends the walk.
FailFastAtRoot ==
  (last.op = "Visit" /\ last.hit = 1) => (last.err /\ Len(last.log) = 1)

----------------------------------------------------------------------------
(* Marshal and Unmarshal.                                                  *)

\* triple.Parse(line, literal.DefaultBuilder()): the fact whose canonical
\* string the line is, surrounding white space aside; an error otherwise.
Canonical == {[text |-> TripleString(f), fact |-> f] : f \in FactUniverse}

Parse(line) ==
  LET raw == TrimSpace(line)
      hits == {c \in Canonical : c.text = raw}
  IN  IF hits = {} THEN [err |-> TRUE, fact |-> Nil]
      ELSE [err |-> FALSE, fact |-> (CHOOSE c \in hits : TRUE).fact]

\* Mutant: the facts are written in the order the scan gave them.
MarshalUnsorted(all) ==
  IF all.err THEN [out |-> <<>>, err |-> TRUE]
  ELSE [out |-> Join([i \in 1..Len(all.triples) |-> TripleString(all.triples[i])], NL),
        err |-> FALSE]

Marshal(all) ==
  IF all.err THEN [out |-> <<>>, err |-> TRUE]
  ELSE LET triples == SortTriples(all.triples)
       IN  [out |-> Join([i \in 1..Len(triples) |-> TripleString(triples[i])], NL),
            err |-> FALSE]

RECURSIVE UnmarshalSkipsBadLines(_, _, _, _)
\* Mutant: a line that does not parse is skipped like a blank one.
UnmarshalSkipsBadLines(g, lines, i, addFail) ==
  IF i > Len(lines) THEN [g |-> g, err |-> FALSE]
  ELSE IF TrimSpace(lines[i]) = <<>> \/ Parse(lines[i]).err
    THEN UnmarshalSkipsBadLines(g, lines, i + 1, addFail)
  ELSE LET added == GraphAdd(g, <<Parse(lines[i]).fact>>, i \notin addFail)
       IN  IF i \in addFail THEN [g |-> added, err |-> TRUE]
           ELSE UnmarshalSkipsBadLines(added, lines, i + 1, addFail)

RECURSIVE UnmarshalFrom(_, _, _, _)
\* The loop of Unmarshal from line i on; the add of line i fails for i in addFail.
UnmarshalFrom(g, lines, i, addFail) ==
  IF i > Len(lines) THEN [g |-> g, err |-> FALSE]
  ELSE IF TrimSpace(lines[i]) = <<>> THEN UnmarshalFrom(g, lines, i + 1, addFail)
  ELSE LET parsed == Parse(lines[i])
       IN  IF parsed.err THEN [g |-> g, err |-> TRUE]
           ELSE LET added == GraphAdd(g, <<parsed.fact>>, i \notin addFail)
                IN  IF i \in addFail THEN [g |-> added, err |-> TRUE]
                    ELSE UnmarshalFrom(added, lines, i + 1, addFail)

Unmarshal(g, data, addFail) == UnmarshalFrom(g, Split(data, NL), 1, addFail)

NoSer ==
  [op |-> "none", g |-> Nil, data |-> <<>>, out |-> <<>>, err |-> FALSE,
   pre |-> NewGraph, addFail |-> {}, src |-> Nil]

\* One add at most is refused in a call: the add of the non-blank line k.
AddFails(data) ==
  LET lines == Split(data, NL)
  IN  {{}} \cup {{k} : k \in {i \in 1..Len(lines) : TrimSpace(lines[i]) # <<>>}}

----------------------------------------------------------------------------
(* Specification SpecSerial: "a" is built from a list of distinct facts,   *)
(* "b" starts empty; either is marshalled, and the bytes marshalled last   *)
(* are unmarshalled into "b".                                              *)

SerFacts == {FactList[4], FactList[5], FactList[6]}

DistinctSeqs(U, n) ==
  {q \in FactSeqs(U, n) : \A i, j \in 1..Len(q) : q[i] = q[j] => i = j}

InitSerial ==
  /\ \E triples \in DistinctSeqs(SerFacts, MaxLen) :
       graphs = ("a" :> NewNamedGraphFromTriples(triples, TRUE)) @@ ("b" :> NewGraph)
  /\ ledger = <<>>
  /\ last = NoSer
  /\ prev = NoSer
  /\ scan = IdleScan

DoMarshal ==
  /\ \E g \in DOMAIN graphs :
       \E all \in AllTriples(graphs[g]) :
         LET r == Marshal(all)
         IN  last' = [NoSer EXCEPT !.op = "Marshal", !.g = g, !.out = r.out,
                                   !.err = r.err, !.pre = graphs[g]]
  /\ UNCHANGED <<graphs, ledger, prev, scan>>

\* The bytes Marshal just returned go into "b".
DoUnmarshalBack ==
  /\ last.op = "Marshal"
  /\ ~last.err
  /\ \E addFail \in AddFails(last.out) :
       LET r == Unmarshal(graphs["b"], last.out, addFail)
       IN  /\ r.g.triplesCount <= MaxCount
           /\ graphs' = [graphs EXCEPT !["b"] = r.g]
           /\ last' = [NoSer EXCEPT !.op = "Unmarshal", !.g = "b", !.data = last.out,
                                    !.err = r.err, !.pre = graphs["b"],
                                    !.addFail = addFail, !.src = last.g]
  /\ UNCHANGED <<ledger, prev, scan>>

NextSerial ==
  \/ DoMarshal
  \/ DoUnmarshalBack

SpecSerial == InitSerial /\ [][NextSerial]_vars

\* out is the strings of p's facts in p's order, one NL between neighbours
\* and none at the end.
LaidOut(out, p) ==
  LET n == Len(p)
      size(i) == Len(TripleString(p[i]))
      start[i \in 1..n] == IF i = 1 THEN 1 ELSE start[i - 1] + size(i - 1) + 1
  IN  /\ Len(out) = (IF n = 0 THEN 0 ELSE start[n] + size(n) - 1)
      /\ \A i \in 1..n :
           SubSeq(out, start[i], start[i] + size(i) - 1) = TripleString(p[i])
      /\ \A i \in 1..(n - 1) : out[start[i] + size(i)] = NL

C8_RoundTrip ==
  (last.op = "Unmarshal" /\ last.src = "a" /\ last.pre.facts = {} /\ last.addFail = {}) =>
    /\ ~last.err
    /\ graphs["b"].facts = graphs["a"].facts

\* The round trip does hold for facts whose strings hold no newline.
RoundTripWithoutNewlines ==
  (/\ last.op = "Unmarshal" /\ last.src = "a" /\ last.pre.facts = {}
   /\ last.addFail = {}
   /\ \A f \in graphs["a"].facts : NL \notin SeqRange(TripleString(f))) =>
    /\ ~last.err
    /\ graphs["b"].facts = graphs["a"].facts

----------------------------------------------------------------------------
(* Specification SpecUnmarshal: Unmarshal of arbitrary bytes into "b".     *)

PaddedLine == <<32>> \o TripleString(FactList[4]) \o <<9>>

LineKinds == {PaddedLine, TripleString(FactList[5]), <<32, 9>>, <<122>>}

Inputs == {Join(q, NL) : q \in UNION {[1..k -> LineKinds] : k \in 0..MaxLines}}

InitUnmarshal ==
  /\ graphs = ("b" :> NewGraph)
  /\ ledger = <<>>
  /\ last = NoOp
  /\ prev = NoOp
  /\ scan = IdleScan

DoUnmarshal ==
  /\ last.op = "none"
  /\ \E data \in Inputs :
       \E addFail \in AddFails(data) :
         LET r == Unmarshal(graphs["b"], data, addFail)
         IN  /\ r.g.triplesCount <= MaxCount
             /\ graphs' = [graphs EXCEPT !["b"] = r.g]
             /\ last' = [NoSer EXCEPT !.op = "Unmarshal", !.g = "b", !.data = data,
                                      !.err = r.err, !.pre = graphs["b"],
                                      !.addFail = addFail]
  /\ UNCHANGED <<ledger, prev, scan>>

NextUnmarshal ==
  \/ Return
  \/ DoUnmarshal

SpecUnmarshal == InitUnmarshal /\ [][NextUnmarshal]_vars

IsBlank(line) == \A i \in 1..Len(line) : IsSpace(line[i])

\* C9: Unmarshal takes the lines in order, skips the white-space-only ones
\* and stops at the first line whose parse or add fails, returning that
\* error with nothing undone: the collection then holds what it held before
\* plus exactly the facts of the non-blank lines before the failing one.
C9_UnmarshalStops ==
  last.op = "Unmarshal" =>
    LET lines == Split(last.data, NL)
        fails == {i \in 1..Len(lines) :
                    ~IsBlank(lines[i]) /\ (Parse(lines[i]).err \/ i \in last.addFail)}
        before == {i \in 1..Len(lines) :
                     ~IsBlank(lines[i]) /\ \A k \in fails : i < k}
    IN  /\ last.err <=> fails # {}
        /\ graphs["b"].facts = last.pre.facts \cup {Parse(lines[i]).fact : i \in before}

C9_Witness ==
  /\ last.op = "Unmarshal"
  /\ last.err
  /\ last.pre.facts = {FactList[5]}
  /\ last.data = Join(<<PaddedLine, <<32, 9>>, <<122>>, TripleString(FactList[5])>>, NL)
  /\ graphs["b"].facts = {FactList[4], FactList[5]}

====
